---- MODULE Spec2Model ----
(***************************************************************************)
(* Model of the NovAtel OEM6 driver (apis/novatel-oem6-api/src/oem6.rs):   *)
(* the background reader read_thread, the command methods of OEM6 and the  *)
(* two bounded channels between them, over a byte-accurate serial stream.  *)
(***************************************************************************)
EXTENDS Integers, Sequences, FiniteSets, TLC

VARIABLES
    wire,       \* bytes the device has sent and the reader has not read yet
    sent,       \* history: the kind of every item the device has sent, in order
    rpc,        \* read_thread: "lock" | "sync" | "hdr" | "body" | "dead"
    message,    \* read_thread: local `message` (bytes read in this iteration)
    rhdr,       \* read_thread: local `hdr` (parsed header), None outside "body"
    lock,       \* Mutex<Connection>: "free" | "reader" | "caller"
    poisoned,   \* Mutex<Connection>: a thread panicked while holding the guard
    respQ,      \* channel response_send -> response_recv
    logQ,       \* channel log_send -> log_recv
    validated,  \* history: sequence number and flag of every frame validated, in order
    event,      \* history: what the reader's last step did
    cpc,        \* caller: "idle" | "lock" | "write" | "resp_wait" | "log_wait" | "panicked"
    req,        \* caller: the call in progress (or the last one)
    result,     \* caller: what the last call returned
    got,        \* caller: the entry get_response / get_log last received, or None
    tx,         \* bytes the call in progress (or the last one) wrote to the transport
    calls,      \* number of calls made so far
    respOut,    \* history: validation numbers dequeued from respQ, in order
    logOut      \* history: validation numbers dequeued from logQ, in order

vars == <<wire, sent, rpc, message, rhdr, lock, poisoned, respQ, logQ,
          validated, event, cpc, req, result, got, tx, calls, respOut, logOut>>

readerVars == <<rpc, message, rhdr, validated, event>>
callerVars == <<cpc, req, result, got, tx, calls, respOut, logOut>>

(***************************************************************************)
(* Bounds of the model.                                                    *)
(***************************************************************************)
MaxItems == 2       \* items the device sends in one run
MaxCalls == 2       \* calls the foreground caller makes in one run
MaxBurst == 6       \* frames the device sends in one burst

(***************************************************************************)
(* Program constants.                                                      *)
(***************************************************************************)
SYNC_LEN == 3            \* conn.read(3, ...)
HDR_REST_LEN == 25       \* conn.read(25, TIMEOUT)
CRC_LEN == 4             \* hdr.msg_len + 4, split_off(len - 4)
RESPONSE_FLAG == 128     \* hdr.msg_type & 0x80
QUEUE_CAP == 5           \* sync_channel(5)
HDR_LEN == SYNC_LEN + HDR_REST_LEN

None == [tag |-> "None"]

(***************************************************************************)
(* Frame codec (messages.rs and crc32.rs of the crate).                    *)
(***************************************************************************)
SYNC == <<170, 68, 18>>

\* MessageID
ID_Log == 1
ID_Unlog == 36
ID_Version == 37
ID_UnlogAll == 38
ID_RxStatusEvent == 94
ID_BestXYZ == 241
ID_Unknown == 200

\* ResponseID::Ok as a u32, kept as <<low 16 bits, high 16 bits>>
RESP_OK == <<1, 0>>

\* Port::COM1, LogTrigger
PORT_COM1 == 32
TRIGGER_OnChanged == 1
TRIGGER_OnTime == 2
TRIGGER_Once == 4

\* n as w little-endian bytes
RECURSIVE LE(_, _)
LE(n, w) ==
    IF w = 0 THEN <<>> ELSE <<n % 256>> \o LE(n \div 256, w - 1)

\* nom::le_u32 of four bytes, as <<low 16 bits, high 16 bits>>
le_u32(b) ==
    <<b[1] + 256 * b[2], b[3] + 256 * b[4]>>

\* write_u32::<LittleEndian>
write_u32(c) ==
    LE(c[1], 2) \o LE(c[2], 2)

\* calc_crc: a 32-bit checksum over the bytes, as <<low 16, high 16>>: the
\* low half sums the bytes (each plus one), the high half weighs every byte
\* by its position, so a changed, moved, added or dropped byte changes it
RECURSIVE crc_sums(_, _, _)
crc_sums(msg, lo, hi) ==
    IF lo > hi THEN <<0, 0>>
    ELSE IF lo = hi THEN <<msg[lo] + 1, lo * (msg[lo] + 1)>>
    ELSE LET mid == (lo + hi) \div 2
             l == crc_sums(msg, lo, mid)
             r == crc_sums(msg, mid + 1, hi)
         IN  <<l[1] + r[1], l[2] + r[2]>>

calc_crc(msg) ==
    LET s == crc_sums(msg, 1, Len(msg))
    IN  <<s[1] % 65536, s[2] % 65536>>

\* Header::parse on the 28 bytes sync + rest of header
Header_parse(raw) ==
    IF Len(raw) < HDR_LEN \/ raw[4] # HDR_LEN THEN None
    ELSE [msg_id   |-> raw[5] + 256 * raw[6],
          msg_type |-> raw[7],
          port     |-> raw[8],
          msg_len  |-> raw[9] + 256 * raw[10],
          sequence |-> raw[11] + 256 * raw[12]]

\* hdr.msg_type & 0x80 == 0x80
IsResponse(hdr) ==
    (hdr.msg_type \div RESPONSE_FLAG) % 2 = 1

\* Response::new(body): result code (u32) followed by the description
Response_new(body) ==
    IF Len(body) < 4 THEN None
    ELSE [resp_id |-> le_u32(SubSeq(body, 1, 4)),
          resp_string |-> SubSeq(body, 5, Len(body))]

\* Log::new(msg_id, body): only the supported log types, body long enough
Log_new(id, body) ==
    IF id \in {ID_Version, ID_BestXYZ, ID_RxStatusEvent} /\ Len(body) >= 1
    THEN [log_id |-> id, data |-> body]
    ELSE None

(***************************************************************************)
(* The device (environment): what it may put on the serial line.           *)
(***************************************************************************)
Zeros(n) == [i \in 1..n |-> 0]

HeaderBytes(hlen, id, type, len, ord) ==
    SYNC \o <<hlen>> \o LE(id, 2) \o <<type, PORT_COM1>> \o LE(len, 2)
         \o LE(ord, 2) \o Zeros(HDR_LEN - 12)

GoodFrame(id, type, body, ord) ==
    LET m == HeaderBytes(HDR_LEN, id, type, Len(body), ord) \o body
    IN  m \o write_u32(calc_crc(m))

BadCrcFrame(id, type, body, ord) ==
    LET m == HeaderBytes(HDR_LEN, id, type, Len(body), ord) \o body
        c == write_u32(calc_crc(m))
    IN  m \o <<(c[1] + 1) % 256>> \o SubSeq(c, 2, 4)

BadHeaderFrame(id, type, body, ord) ==
    LET m == HeaderBytes(HDR_LEN - 1, id, type, Len(body), ord) \o body
    IN  m \o write_u32(calc_crc(m))

OkBody == write_u32(RESP_OK) \o <<79, 75>>
ErrBody == write_u32(<<2, 0>>) \o <<69>>

\* well-formed frames: responses (matching id, other id, error code, body
\* too short for a Response) and logs (known id, unknown id)
GoodKinds ==
    {"resp_log_ok", "resp_unlog_ok", "resp_log_err", "resp_short",
     "log_version", "log_unknown"}

\* malformed input: a frame with a corrupted CRC, one with a malformed
\* header, a header cut after 8 bytes, a sync marker alone, 3 stray bytes
BadKinds ==
    {"bad_crc", "bad_header", "truncated", "spurious_sync", "junk"}

ItemKinds == GoodKinds \cup BadKinds

\* what the device sends in the main specification: well-formed frames
CommandKinds == GoodKinds

\* what it sends in the framing specification: malformed input between
\* well-formed frames of both kinds
FramingKinds == BadKinds \cup {"resp_log_ok", "log_version"}

\* what it sends in the command specification: the acknowledgment of each
\* of the three commands
ResponseKinds ==
    {"resp_log_ok", "resp_unlog_ok", "resp_unlogall_ok"}

ItemBytes(k, ord) ==
    CASE k = "resp_log_ok"   -> GoodFrame(ID_Log, RESPONSE_FLAG, OkBody, ord)
      [] k = "resp_unlog_ok" -> GoodFrame(ID_Unlog, RESPONSE_FLAG, OkBody, ord)
      [] k = "resp_log_err"  -> GoodFrame(ID_Log, RESPONSE_FLAG, ErrBody, ord)
      [] k = "resp_short"    -> GoodFrame(ID_Log, RESPONSE_FLAG, <<1>>, ord)
      [] k = "resp_unlogall_ok" ->
             GoodFrame(ID_UnlogAll, RESPONSE_FLAG, OkBody, ord)
      [] k = "log_version"   -> GoodFrame(ID_Version, 0, <<7>>, ord)
      [] k = "log_unknown"   -> GoodFrame(ID_Unknown, 0, <<7>>, ord)
      [] k = "bad_crc"       -> BadCrcFrame(ID_Version, 0, <<7>>, ord)
      [] k = "bad_header"    -> BadHeaderFrame(ID_Version, 0, <<7>>, ord)
      [] k = "truncated"     ->
             SubSeq(GoodFrame(ID_Version, 0, <<7>>, ord), 1, 8)
      [] k = "spurious_sync" -> SYNC
      [] k = "junk"          -> <<18, 68, 170>>

DeviceSend(kinds) ==
    /\ Len(sent) < MaxItems
    /\ \E k \in kinds :
         /\ wire' = wire \o ItemBytes(k, Len(sent) + 1)
         /\ sent' = Append(sent, k)
    /\ UNCHANGED <<lock, poisoned, respQ, logQ>>
    /\ UNCHANGED readerVars
    /\ UNCHANGED callerVars

\* a burst: the device sends the same well-formed frame (a log, or a
\* response) over and over
BurstKinds == {"resp_log_ok", "log_version"}

DeviceBurst ==
    /\ Len(sent) < MaxBurst
    /\ \E k \in BurstKinds :
         /\ sent # <<>> => k = sent[1]
         /\ wire' = wire \o ItemBytes(k, Len(sent) + 1)
         /\ sent' = Append(sent, k)
    /\ UNCHANGED <<lock, poisoned, respQ, logQ>>
    /\ UNCHANGED readerVars
    /\ UNCHANGED callerVars

\* a device that logs an unsupported message for as long as it runs: once
\* the line is idle and the log queue is empty it sends the next one, sooner
\* than 5 s after the previous one.  The histories start over with each item
\* of the stream, so an endless stream stays within a finite state space.
DeviceRepeat ==
    /\ wire = <<>>
    /\ rpc = "lock"
    /\ logQ = <<>>
    /\ wire' = ItemBytes("log_unknown", 1)
    /\ sent' = <<"log_unknown">>
    /\ validated' = <<>>
    /\ logOut' = <<>>
    /\ UNCHANGED <<rpc, message, rhdr, event, lock, poisoned, respQ, logQ>>
    /\ UNCHANGED <<cpc, req, result, got, tx, calls, respOut>>

(***************************************************************************)
(* Connection::read(len, timeout): read_exact on the serial port.  With    *)
(* len bytes available it returns them; with fewer it takes what there is  *)
(* and times out; any read may fail with another I/O error.                *)
(***************************************************************************)
ReadOutcomes(len) ==
    (IF Len(wire) >= len
     THEN {[kind |-> "ok", data |-> SubSeq(wire, 1, len),
            rest |-> SubSeq(wire, len + 1, Len(wire))]}
     ELSE {[kind |-> "timeout", data |-> <<>>, rest |-> <<>>]})
    \cup {[kind |-> "ioerr", data |-> <<>>, rest |-> wire]}

(***************************************************************************)
(* read_thread                                                             *)
(***************************************************************************)
\* `continue`: the guard `conn` is dropped, the loop starts over
ReaderContinue(ev) ==
    /\ rpc' = "lock"
    /\ message' = <<>>
    /\ rhdr' = None
    /\ lock' = "free"
    /\ event' = ev
    /\ UNCHANGED <<poisoned, respQ, logQ, validated>>

\* panic with the guard alive: unwinding drops it and poisons the mutex
ReaderPanic(ev) ==
    /\ rpc' = "dead"
    /\ message' = <<>>
    /\ rhdr' = None
    /\ lock' = "free"
    /\ poisoned' = TRUE
    /\ event' = ev
    /\ UNCHANGED <<respQ, logQ, validated>>

\* let conn = rx_conn.lock().unwrap();
read_thread_lock ==
    /\ rpc = "lock"
    /\ lock = "free"
    /\ IF poisoned
       THEN /\ rpc' = "dead"
            /\ event' = "panic_poison"
            /\ UNCHANGED lock
       ELSE /\ rpc' = "sync"
            /\ lock' = "reader"
            /\ UNCHANGED event
    /\ UNCHANGED <<wire, sent, message, rhdr, poisoned, respQ, logQ, validated>>
    /\ UNCHANGED callerVars

\* conn.read(3, 2 s) and the comparison with SYNC
read_thread_sync ==
    /\ rpc = "sync"
    /\ \E r \in ReadOutcomes(SYNC_LEN) :
         /\ wire' = r.rest
         /\ CASE r.kind = "timeout" -> ReaderContinue("sync_timeout")
              [] r.kind = "ioerr"   -> ReaderPanic("panic_io")
              [] r.kind = "ok" ->
                    IF r.data # SYNC
                    THEN ReaderContinue("bad_sync")
                    ELSE /\ message' = r.data
                         /\ rpc' = "hdr"
                         /\ event' = "sync"
                         /\ UNCHANGED <<rhdr, lock, poisoned, respQ, logQ,
                                        validated>>
    /\ UNCHANGED sent
    /\ UNCHANGED callerVars

\* message.append(conn.read(25, TIMEOUT).unwrap()); Header::parse(&message)
read_thread_header ==
    /\ rpc = "hdr"
    /\ \E r \in ReadOutcomes(HDR_REST_LEN) :
         /\ wire' = r.rest
         /\ CASE r.kind = "timeout" -> ReaderPanic("panic_timeout")
              [] r.kind = "ioerr"   -> ReaderPanic("panic_io")
              [] r.kind = "ok" ->
                    LET m == message \o r.data
                        h == Header_parse(m)
                    IN  IF h = None
                        THEN ReaderContinue("bad_header")
                        ELSE /\ message' = m
                             /\ rhdr' = h
                             /\ rpc' = "body"
                             /\ event' = "header"
                             /\ UNCHANGED <<lock, poisoned, respQ, logQ,
                                            validated>>
    /\ UNCHANGED sent
    /\ UNCHANGED callerVars

\* the OEM6 value has been dropped, and its two receivers with it
Disconnected == cpc = "dropped"

\* mutant of try_send: the new entry goes to the front of the channel
try_send_front(q, e) ==
    IF Disconnected \/ Len(q) >= QUEUE_CAP
    THEN [ok |-> FALSE, q |-> q]
    ELSE [ok |-> TRUE, q |-> <<e>> \o q]

\* try_send((hdr, body)) on a bounded channel: Err(Full) or
\* Err(Disconnected), else the entry is queued
try_send(q, e) ==
    IF Disconnected \/ Len(q) >= QUEUE_CAP
    THEN [ok |-> FALSE, q |-> q]
    ELSE [ok |-> TRUE, q |-> Append(q, e)]

\* the history entry of a validated frame
Mark(hdr) ==
    [sequence |-> hdr.sequence, resp |-> IsResponse(hdr)]

\* the end of an iteration that delivered its frame
ReaderDelivered(hdr, ev) ==
    /\ validated' = Append(validated, Mark(hdr))
    /\ rpc' = "lock"
    /\ message' = <<>>
    /\ rhdr' = None
    /\ lock' = "free"
    /\ event' = ev
    /\ UNCHANGED poisoned

\* mutant of Dispatch: a frame that cannot be queued is dropped and the
\* reader goes on
Dispatch_lossy(hdr, e) ==
    IF IsResponse(hdr)
    THEN IF ~try_send(respQ, e).ok
         THEN ReaderContinue("dropped")
         ELSE /\ respQ' = try_send(respQ, e).q
              /\ ReaderDelivered(hdr, "to_response")
              /\ UNCHANGED logQ
    ELSE IF ~try_send(logQ, e).ok
         THEN ReaderContinue("dropped")
         ELSE /\ logQ' = try_send(logQ, e).q
              /\ ReaderDelivered(hdr, "to_log")
              /\ UNCHANGED respQ

\* mutant of Dispatch: the two arms of the match exchanged
Dispatch_swapped(hdr, e) ==
    IF ~IsResponse(hdr)
    THEN IF ~try_send(respQ, e).ok
         THEN ReaderPanic("panic_full")
         ELSE /\ respQ' = try_send(respQ, e).q
              /\ ReaderDelivered(hdr, "to_response")
              /\ UNCHANGED logQ
    ELSE IF ~try_send(logQ, e).ok
         THEN ReaderPanic("panic_full")
         ELSE /\ logQ' = try_send(logQ, e).q
              /\ ReaderDelivered(hdr, "to_log")
              /\ UNCHANGED respQ

\* match hdr.msg_type & 0x80 == 0x80 { true => response_send, false => log_send }
Dispatch(hdr, e) ==
    IF IsResponse(hdr)
    THEN IF ~try_send(respQ, e).ok
         THEN ReaderPanic("panic_full")
         ELSE /\ respQ' = try_send(respQ, e).q
              /\ ReaderDelivered(hdr, "to_response")
              /\ UNCHANGED logQ
    ELSE IF ~try_send(logQ, e).ok
         THEN ReaderPanic("panic_full")
         ELSE /\ logQ' = try_send(logQ, e).q
              /\ ReaderDelivered(hdr, "to_log")
              /\ UNCHANGED respQ

\* mutant of CrcMismatch: the CRC is never compared
CrcMismatch_never(calc, crc) ==
    FALSE

\* the CRC check: calc != crc => continue
CrcMismatch(calc, crc) ==
    calc # crc

\* history: the call that is waiting for its response (its command written)
\* when the reader delivers a response, 0 when there is none
Waiting(hdr) ==
    IF IsResponse(hdr) /\ cpc = "resp_wait" THEN calls ELSE 0

\* conn.read(hdr.msg_len + 4, TIMEOUT).unwrap(), CRC check, dispatch
read_thread_body ==
    /\ rpc = "body"
    /\ \E r \in ReadOutcomes(rhdr.msg_len + CRC_LEN) :
         /\ wire' = r.rest
         /\ CASE r.kind = "timeout" -> ReaderPanic("panic_timeout")
              [] r.kind = "ioerr"   -> ReaderPanic("panic_io")
              [] r.kind = "ok" ->
                    LET m    == message \o r.data
                        len  == Len(m)
                        crc  == le_u32(SubSeq(m, len - 3, len))
                        msg  == SubSeq(m, 1, len - 4)
                        calc == calc_crc(msg)
                        body == SubSeq(msg, HDR_LEN + 1, Len(msg))
                    IN  IF CrcMismatch(calc, crc)
                        THEN ReaderContinue("bad_crc")
                        ELSE Dispatch(rhdr,
                                 [hdr |-> rhdr, body |-> body,
                                  n |-> Len(validated) + 1,
                                  raw |-> SubSeq(msg, 1, HDR_LEN),
                                  crc |-> crc,
                                  call |-> Waiting(rhdr)])
    /\ UNCHANGED sent
    /\ UNCHANGED callerVars

(***************************************************************************)
(* Outbound messages (messages.rs): the commands and their serialization.  *)
(***************************************************************************)
LogCmd_new(port, msg_id, trigger, period, offset, hold) ==
    [cmd |-> ID_Log, port |-> port, msg_id |-> msg_id, trigger |-> trigger,
     period |-> period, offset |-> offset, hold |-> hold]

UnlogCmd_new(port, msg_id) ==
    [cmd |-> ID_Unlog, port |-> port, msg_id |-> msg_id, trigger |-> 0,
     period |-> 0, offset |-> 0, hold |-> FALSE]

UnlogAllCmd_new(port, hold) ==
    [cmd |-> ID_UnlogAll, port |-> port, msg_id |-> 0, trigger |-> 0,
     period |-> 0, offset |-> 0, hold |-> hold]

Bool(b) == IF b THEN 1 ELSE 0

\* the body of a command, field by field (section 6 of the specification)
CmdBody(m) ==
    CASE m.cmd = ID_Log ->
            LE(m.port, 4) \o LE(m.msg_id, 2) \o LE(m.trigger, 4)
                \o LE(m.period, 8) \o LE(m.offset, 8) \o LE(Bool(m.hold), 4)
      [] m.cmd = ID_Unlog -> LE(m.port, 4) \o LE(m.msg_id, 2)
      [] m.cmd = ID_UnlogAll -> LE(m.port, 4) \o LE(Bool(m.hold), 4)

\* Message::serialize: header and body, without the trailing CRC
serialize(m) ==
    HeaderBytes(HDR_LEN, m.cmd, 0, Len(CmdBody(m)), 0) \o CmdBody(m)

(***************************************************************************)
(* The calls the foreground caller may make.                               *)
(***************************************************************************)
Call(op, interval, offset, hold, id, msg) ==
    [op |-> op, interval |-> interval, offset |-> offset, hold |-> hold,
     id |-> id, msg |-> msg]

NoCall == Call("none", 0, 0, FALSE, 0, <<>>)

PassMsgs == {<<85, 78>>}

CommandOps ==
    {"request_version", "request_position", "request_errors",
     "request_unlog", "request_unlog_all"}

\* the calls of the main specification
Calls ==
    {Call("request_version", 0, 0, FALSE, 0, <<>>),
     Call("request_unlog", 0, 0, FALSE, ID_BestXYZ, <<>>),
     Call("get_log", 0, 0, FALSE, 0, <<>>)}
    \cup {Call("passthrough", 0, 0, FALSE, 0, m) : m \in PassMsgs}

\* the calls of the framing specification
FramingCalls ==
    {c \in Calls : c.op \in {"request_version", "get_log"}}

\* every public method
ApiCalls ==
    Calls
    \cup {Call("request_errors", 0, 0, FALSE, 0, <<>>),
          Call("request_unlog_all", 0, 0, TRUE, 0, <<>>)}
    \cup {Call("request_position", i, 0, FALSE, 0, <<>>) : i \in {0, 1}}

\* the calls of the burst specification
BurstCalls ==
    {c \in Calls : c.op = "request_version"}

\* the calls of the progress specification
LiveCalls ==
    {c \in Calls : c.op \in {"request_version", "get_log"}}

\* the command methods, the calls of the command specification
CommandCalls ==
    {c \in ApiCalls : c.op \in CommandOps}

\* the request each command method builds
request_version ==
    LogCmd_new(PORT_COM1, ID_Version, TRIGGER_Once, 0, 0, FALSE)

request_position(interval, offset, hold) ==
    LogCmd_new(PORT_COM1, ID_BestXYZ,
               IF interval = 0 THEN TRIGGER_Once ELSE TRIGGER_OnTime,
               interval, offset, hold)

request_errors ==
    LogCmd_new(PORT_COM1, ID_RxStatusEvent, TRIGGER_OnChanged, 0, 0, FALSE)

request_unlog(id) ==
    UnlogCmd_new(PORT_COM1, id)

request_unlog_all(hold) ==
    UnlogAllCmd_new(PORT_COM1, hold)

Request(c) ==
    CASE c.op = "request_version"   -> request_version
      [] c.op = "request_position"  ->
             request_position(c.interval, c.offset, c.hold)
      [] c.op = "request_errors"    -> request_errors
      [] c.op = "request_unlog"     -> request_unlog(c.id)
      [] c.op = "request_unlog_all" -> request_unlog_all(c.hold)

\* mutant of ExpectedId: the method awaits the id of the log it asks for
ExpectedId_asked(c) ==
    CASE c.op = "request_version"   -> ID_Version
      [] c.op = "request_position"  -> ID_BestXYZ
      [] c.op = "request_errors"    -> ID_RxStatusEvent
      [] c.op = "request_unlog"     -> c.id
      [] c.op = "request_unlog_all" -> ID_UnlogAll

\* the id each command method passes to get_response
ExpectedId(c) ==
    CASE c.op = "request_version"   -> ID_Log
      [] c.op = "request_position"  -> ID_Log
      [] c.op = "request_errors"    -> ID_Log
      [] c.op = "request_unlog"     -> ID_Unlog
      [] c.op = "request_unlog_all" -> ID_UnlogAll

Res(kind) == [kind |-> kind]

\* the caller invokes one of the public methods
Invoke(cs) ==
    /\ cpc = "idle"
    /\ calls < MaxCalls
    /\ \E c \in cs :
         /\ req' = c
         /\ cpc' = IF c.op = "get_log" THEN "log_wait" ELSE "lock"
    /\ calls' = calls + 1
    /\ result' = Res("pending")
    /\ got' = None
    /\ tx' = <<>>
    /\ UNCHANGED <<wire, sent, lock, poisoned, respQ, logQ, respOut, logOut>>
    /\ UNCHANGED readerVars

\* mutant of conn_lock: the caller does not wait for the lock to be free
conn_lock_nowait ==
    /\ cpc = "lock"
    /\ IF poisoned
       THEN /\ cpc' = "panicked"
            /\ result' = Res("panic")
            /\ UNCHANGED lock
       ELSE /\ cpc' = "write"
            /\ lock' = "caller"
            /\ UNCHANGED result
    /\ UNCHANGED <<wire, sent, poisoned, respQ, logQ, req, got, tx, calls,
                   respOut, logOut>>
    /\ UNCHANGED readerVars

\* self.conn.lock().unwrap(): blocks while the reader holds the lock; on a
\* poisoned mutex lock() is Err and unwrap() panics in the caller
conn_lock ==
    /\ cpc = "lock"
    /\ lock = "free"
    /\ IF poisoned
       THEN /\ cpc' = "panicked"
            /\ result' = Res("panic")
            /\ UNCHANGED lock
       ELSE /\ cpc' = "write"
            /\ lock' = "caller"
            /\ UNCHANGED result
    /\ UNCHANGED <<wire, sent, poisoned, respQ, logQ, req, got, tx, calls,
                   respOut, logOut>>
    /\ UNCHANGED readerVars

\* mutant of passthrough_write: the bytes are framed with a CRC
passthrough_write_framed(msg) ==
    /\ lock' = "free"
    /\ \/ /\ tx' = msg \o write_u32(calc_crc(msg))
          /\ result' = Res("Ok")
       \/ /\ result' = Res("UartError")
          /\ UNCHANGED tx
    /\ cpc' = "idle"

\* Ok(self.conn.lock().unwrap().write(msg)?) of passthrough
passthrough_write(msg) ==
    /\ lock' = "free"
    /\ \/ /\ tx' = msg
          /\ result' = Res("Ok")
       \/ /\ result' = Res("UartError")
          /\ UNCHANGED tx
    /\ cpc' = "idle"

\* mutant of send_message_write: the write error is dropped and the method
\* goes on to get_response
send_message_write_ignore(msg) ==
    /\ lock' = "free"
    /\ \/ /\ tx' = serialize(msg) \o write_u32(calc_crc(serialize(msg)))
          /\ cpc' = "resp_wait"
          /\ UNCHANGED result
       \/ /\ cpc' = "resp_wait"
          /\ UNCHANGED <<tx, result>>

\* mutant of send_message_write: the guard is kept while the method waits
\* for the response
send_message_write_hold(msg) ==
    \/ /\ result' = Res("UartError")
       /\ cpc' = "idle"
       /\ lock' = "free"
       /\ UNCHANGED tx
    \/ /\ tx' = serialize(msg) \o write_u32(calc_crc(serialize(msg)))
       /\ cpc' = "resp_wait"
       /\ UNCHANGED <<lock, result>>

\* raw = msg.serialize() + CRC; Ok(self.conn.lock().unwrap().write(raw)?);
\* the write fails and `?` returns the error, or it succeeds and the caller
\* goes on to get_response
send_message_write(msg) ==
    /\ lock' = "free"
    /\ \/ /\ result' = Res("UartError")
          /\ cpc' = "idle"
          /\ UNCHANGED tx
       \/ /\ tx' = serialize(msg) \o write_u32(calc_crc(serialize(msg)))
          /\ cpc' = "resp_wait"
          /\ UNCHANGED result

passthrough ==
    /\ cpc = "write"
    /\ req.op = "passthrough"
    /\ passthrough_write(req.msg)
    /\ UNCHANGED <<wire, sent, poisoned, respQ, logQ, req, got, calls,
                   respOut, logOut>>
    /\ UNCHANGED readerVars

send_message ==
    /\ cpc = "write"
    /\ req.op \in CommandOps
    /\ send_message_write(Request(req))
    /\ UNCHANGED <<wire, sent, poisoned, respQ, logQ, req, got, calls,
                   respOut, logOut>>
    /\ UNCHANGED readerVars

\* mutant of Classify: the message id is not compared
Classify_noid(e, id) ==
    IF ~IsResponse(e.hdr) THEN Res("NoResponse")
    ELSE IF Response_new(e.body) = None THEN Res("NoResponse")
    ELSE IF Response_new(e.body).resp_id # RESP_OK
         THEN [kind |-> "CommandError",
               id |-> Response_new(e.body).resp_id,
               description |-> Response_new(e.body).resp_string]
    ELSE Res("Ok")

\* mutant of Classify: the result code is checked before the message id
Classify_codefirst(e, id) ==
    IF ~IsResponse(e.hdr) THEN Res("NoResponse")
    ELSE IF Response_new(e.body) = None THEN Res("NoResponse")
    ELSE IF Response_new(e.body).resp_id # RESP_OK
         THEN [kind |-> "CommandError",
               id |-> Response_new(e.body).resp_id,
               description |-> Response_new(e.body).resp_string]
    ELSE IF e.hdr.msg_id # id THEN Res("ResponseMismatch")
    ELSE Res("Ok")

\* the checks of get_response on the entry it received
Classify(e, id) ==
    IF ~IsResponse(e.hdr) THEN Res("NoResponse")
    ELSE IF Response_new(e.body) = None THEN Res("NoResponse")
    ELSE IF e.hdr.msg_id # id THEN Res("ResponseMismatch")
    ELSE IF Response_new(e.body).resp_id # RESP_OK
         THEN [kind |-> "CommandError",
               id |-> Response_new(e.body).resp_id,
               description |-> Response_new(e.body).resp_string]
    ELSE Res("Ok")

\* recv_timeout on a channel: the oldest entry, or None after the wait (or
\* at once when the channel is empty and the sender is gone)
recv_timeout(q) ==
    IF q = <<>> THEN None ELSE Head(q)

get_response ==
    /\ cpc = "resp_wait"
    /\ LET e == recv_timeout(respQ)
       IN  IF e = None
           THEN /\ result' = Res("NoResponse")
                /\ got' = None
                /\ UNCHANGED <<respQ, respOut>>
           ELSE /\ respQ' = Tail(respQ)
                /\ respOut' = Append(respOut, e.n)
                /\ got' = e
                /\ result' = Classify(e, ExpectedId(req))
    /\ cpc' = "idle"
    /\ UNCHANGED <<wire, sent, lock, poisoned, logQ, req, tx, calls, logOut>>
    /\ UNCHANGED readerVars

\* the owner of the OEM6 value drops it: no more calls, the receivers of
\* both channels are gone (the reader thread runs on)
drop ==
    /\ cpc = "idle"
    /\ cpc' = "dropped"
    /\ UNCHANGED <<wire, sent, lock, poisoned, respQ, logQ, req, result, got,
                   tx, calls, respOut, logOut>>
    /\ UNCHANGED readerVars

\* mutant of get_log: an entry that is not a known log ends the call with
\* an error instead of being skipped
get_log_strict ==
    /\ cpc = "log_wait"
    /\ LET e == recv_timeout(logQ)
       IN  IF e = None
           THEN /\ cpc' = "panicked"
                /\ result' = Res("panic")
                /\ UNCHANGED <<logQ, logOut, got>>
           ELSE /\ logQ' = Tail(logQ)
                /\ logOut' = Append(logOut, e.n)
                /\ got' = e
                /\ cpc' = "idle"
                /\ IF IsResponse(e.hdr) \/ Log_new(e.hdr.msg_id, e.body) = None
                   THEN result' = Res("UnknownMessage")
                   ELSE result' = [kind |-> "Ok",
                                   log |-> Log_new(e.hdr.msg_id, e.body)]
    /\ UNCHANGED <<wire, sent, lock, poisoned, respQ, req, tx, calls, respOut>>
    /\ UNCHANGED readerVars

\* one turn of the loop of get_log
get_log ==
    /\ cpc = "log_wait"
    /\ LET e == recv_timeout(logQ)
       IN  IF e = None
           THEN /\ cpc' = "panicked"
                /\ result' = Res("panic")
                /\ UNCHANGED <<logQ, logOut, got>>
           ELSE /\ logQ' = Tail(logQ)
                /\ logOut' = Append(logOut, e.n)
                /\ got' = e
                /\ IF IsResponse(e.hdr) \/ Log_new(e.hdr.msg_id, e.body) = None
                   THEN UNCHANGED <<cpc, result>>
                   ELSE /\ cpc' = "idle"
                        /\ result' = [kind |-> "Ok",
                                      log |-> Log_new(e.hdr.msg_id, e.body)]
    /\ UNCHANGED <<wire, sent, lock, poisoned, respQ, req, tx, calls, respOut>>
    /\ UNCHANGED readerVars

(***************************************************************************)
(* The system: OEM6::new, then read_thread beside the caller.              *)
(***************************************************************************)
Init ==
    /\ wire = <<>> /\ sent = <<>>
    /\ rpc = "lock" /\ message = <<>> /\ rhdr = None
    /\ lock = "free" /\ poisoned = FALSE
    /\ respQ = <<>> /\ logQ = <<>>
    /\ validated = <<>> /\ event = "none"
    /\ cpc = "idle" /\ req = NoCall /\ result = Res("none") /\ got = None
    /\ tx = <<>> /\ calls = 0
    /\ respOut = <<>> /\ logOut = <<>>

Next ==
    \/ DeviceSend(CommandKinds)
    \/ read_thread_lock
    \/ read_thread_sync
    \/ read_thread_header
    \/ read_thread_body
    \/ Invoke(Calls)
    \/ conn_lock
    \/ passthrough
    \/ send_message
    \/ get_response
    \/ get_log

Spec == Init /\ [][Next]_vars

\* the same system on a line that also carries malformed input
NextFraming ==
    \/ DeviceSend(FramingKinds)
    \/ read_thread_lock
    \/ read_thread_sync
    \/ read_thread_header
    \/ read_thread_body
    \/ Invoke(FramingCalls)
    \/ conn_lock
    \/ send_message
    \/ get_response
    \/ get_log

SpecFraming == Init /\ [][NextFraming]_vars

\* every command method, against the acknowledgment of every command
NextApi ==
    \/ DeviceSend(ResponseKinds)
    \/ read_thread_lock
    \/ read_thread_sync
    \/ read_thread_header
    \/ read_thread_body
    \/ Invoke(CommandCalls)
    \/ conn_lock
    \/ send_message
    \/ get_response

SpecApi == Init /\ [][NextApi]_vars

\* a device that sends faster than the caller receives, and a caller that
\* may drop its OEM6 value
NextBurst ==
    \/ DeviceBurst
    \/ read_thread_lock
    \/ read_thread_sync
    \/ read_thread_header
    \/ read_thread_body
    \/ Invoke(BurstCalls)
    \/ conn_lock
    \/ send_message
    \/ get_response
    \/ drop

SpecBurst == Init /\ [][NextBurst]_vars

\* progress: an endless stream of logs, and both threads keep running.  The
\* scheduler runs a thread that can take a step; std::sync::Mutex promises
\* no fairness between the threads that contend for it.
read_thread ==
    \/ read_thread_lock
    \/ read_thread_sync
    \/ read_thread_header
    \/ read_thread_body

NextLive ==
    \/ DeviceRepeat
    \/ read_thread_lock
    \/ read_thread_sync
    \/ read_thread_header
    \/ read_thread_body
    \/ Invoke(LiveCalls)
    \/ conn_lock
    \/ send_message
    \/ get_response
    \/ get_log

SpecLive ==
    /\ Init
    /\ [][NextLive]_vars
    /\ WF_vars(read_thread)
    /\ WF_vars(conn_lock)
    /\ WF_vars(send_message)
    /\ WF_vars(get_response)
    /\ WF_vars(get_log)

(***************************************************************************)
(* Properties.                                                             *)
(***************************************************************************)
Range(q) == {q[i] : i \in 1..Len(q)}

\* the validation numbers of the entries of a queue, in queue order
Numbers(q) == [i \in 1..Len(q) |-> q[i].n]

\* everything that ever went through a queue, oldest first
RespSide == respOut \o Numbers(respQ)
LogSide == logOut \o Numbers(logQ)

ReaderHolds == rpc \in {"sync", "hdr", "body"}
CallerHolds == cpc = "write"

\* a call of a command method has returned from get_response
Returned(op) ==
    /\ cpc = "idle"
    /\ req.op = op
    /\ result.kind \notin {"pending", "UartError"}

\* C1: every validated frame with bit 0x80 set in its type byte went to the
\* response queue only, every other one to the log queue only; so every
\* entry of the response queue (and every entry get_response received) has
\* the flag, and every entry of the log queue (and every entry get_log
\* received) has not.
C1_DispatchRouting ==
    /\ \A n \in 1..Len(validated) :
         IF validated[n].resp
         THEN n \in Range(RespSide) /\ n \notin Range(LogSide)
         ELSE n \in Range(LogSide) /\ n \notin Range(RespSide)
    /\ \A e \in Range(respQ) : IsResponse(e.hdr) /\ validated[e.n].resp
    /\ \A e \in Range(logQ) : ~IsResponse(e.hdr) /\ ~validated[e.n].resp
    /\ (got # None /\ req.op \in CommandOps) => IsResponse(got.hdr)
    /\ (got # None /\ req.op = "get_log") => ~IsResponse(got.hdr)

C1_Witness ==
    /\ respQ # <<>>
    /\ logQ # <<>>

C3_Correlation ==
    Returned("request_version") =>
        /\ got = None => result = Res("NoResponse")
        /\ (got # None /\ Response_new(got.body) # None) =>
              /\ (got.hdr.msg_id = ID_Log
                    /\ Response_new(got.body).resp_id = RESP_OK)
                 => result = Res("Ok")
              /\ got.hdr.msg_id # ID_Log => result = Res("ResponseMismatch")

C3_Witness ==
    /\ Returned("request_version")
    /\ got # None
    /\ got.hdr.msg_id = ID_Log
    /\ result = Res("Ok")

\* C4: no call of a command method or of passthrough crashes the caller:
\* each returns success or one of the typed errors.
C4_CommandsReturn ==
    ~(cpc = "panicked" /\ req.op \in CommandOps \cup {"passthrough"})

\* C5: get_log reports a missing log by returning an error value: it never
\* crashes the caller.
C5_GetLogReturns ==
    ~(cpc = "panicked" /\ req.op = "get_log")

\* the frame an entry was built from is one the device sent well-formed
FromGoodFrame(e) ==
    \E i \in 1..Len(sent) :
        /\ sent[i] \in GoodKinds
        /\ ItemBytes(sent[i], i) = e.raw \o e.body \o write_u32(e.crc)

EntryValid(e) ==
    /\ SubSeq(e.raw, 1, SYNC_LEN) = SYNC
    /\ Header_parse(e.raw) = e.hdr
    /\ calc_crc(e.raw \o e.body) = e.crc
    /\ FromGoodFrame(e)

\* the reader reads len bytes in this step
ReaderReads(at, len) ==
    /\ rpc = at
    /\ Len(wire) >= len
    /\ wire' = SubSeq(wire, len + 1, Len(wire))

BadSyncStep ==
    /\ ReaderReads("sync", SYNC_LEN)
    /\ SubSeq(wire, 1, SYNC_LEN) # SYNC

BadHeaderStep ==
    /\ ReaderReads("hdr", HDR_REST_LEN)
    /\ Header_parse(message \o SubSeq(wire, 1, HDR_REST_LEN)) = None

BadCrcStep ==
    /\ rpc = "body"
    /\ ReaderReads("body", rhdr.msg_len + CRC_LEN)
    /\ LET m == message \o SubSeq(wire, 1, rhdr.msg_len + CRC_LEN)
       IN  calc_crc(SubSeq(m, 1, Len(m) - CRC_LEN))
               # le_u32(SubSeq(m, Len(m) - CRC_LEN + 1, Len(m)))

AnomalyRecovered ==
    (BadSyncStep \/ BadHeaderStep \/ BadCrcStep) =>
        /\ respQ' = respQ /\ logQ' = logQ
        /\ rpc' = "lock" /\ lock' = "free" /\ ~poisoned'
        /\ message' = <<>>
        /\ UNCHANGED callerVars

\* C6: a step of the reader that meets a bad sync marker, an unparseable
\* header or a CRC mismatch enqueues nothing, leaves the reader alive at the
\* start of its loop with the lock released, and changes nothing the caller
\* sees; and every entry of either queue (or received from one) was built
\* from a frame with the sync marker, a parseable header and a matching CRC.
C6_FramingRecovered ==
    /\ [](\A e \in Range(respQ) \cup Range(logQ) \cup ({got} \ {None}) :
             EntryValid(e))
    /\ [][AnomalyRecovered]_vars

C6_Witness ==
    /\ event = "bad_crc"
    /\ rpc = "sync"
    /\ respQ # <<>>

\* no read of the reader failed with an I/O error, no queue overflowed
NoFatalIo == event \notin {"panic_io", "panic_full", "panic_poison"}

\* the reader has nothing left to read
Drained ==
    \/ rpc = "dead"
    \/ rpc \in {"lock", "sync"} /\ wire = <<>>

Injected == {"bad_crc", "truncated", "spurious_sync"}

\* C7: once the reader has consumed the stream, every well-formed frame
\* that followed an injected malformed one has been validated.
C7_Resilience ==
    (Drained /\ NoFatalIo) =>
        \A i, j \in 1..Len(sent) :
            (i < j /\ sent[i] \in Injected /\ sent[j] \in GoodKinds)
            => \E n \in 1..Len(validated) : validated[n].sequence = j

\* C8: the reader holds the lock in every state between its sync read and
\* the end of its iteration, a writer holds it while it writes, never both;
\* and a writer holds it only when the reader is between two frames.
C8_MutualExclusion ==
    /\ ~(ReaderHolds /\ CallerHolds)
    /\ ReaderHolds => lock = "reader"
    /\ CallerHolds => (lock = "caller" /\ message = <<>>)

C8_Witness ==
    /\ cpc = "lock"
    /\ rpc = "body"
    /\ lock = "reader"

\* C9: a timeout of one of the reader's reads never terminates the reader.
C9_TimeoutsRetried ==
    rpc = "dead" => event # "panic_timeout"

CallerStep == cpc' # cpc

\* what a step of a passthrough call may do
PassthroughStep ==
    (CallerStep /\ req'.op = "passthrough") =>
        /\ respQ' = respQ /\ logQ' = logQ
        /\ respOut' = respOut /\ logOut' = logOut
        /\ cpc' \in {"lock", "write", "idle", "panicked"}
        /\ cpc = "write" =>
              /\ cpc' = "idle"
              /\ lock' = "free"
              /\ result'.kind \in {"Ok", "UartError"}
              /\ result'.kind = "Ok" => tx' = req.msg
              /\ result'.kind = "UartError" => tx' = <<>>

\* C10: every step of a passthrough call leaves both queues and what was
\* dequeued from them unchanged and never waits for a response; the write
\* puts exactly the given bytes on the transport (nothing when it fails),
\* releases the lock and returns.
C10_Passthrough ==
    [][PassthroughStep]_vars

C10_Witness ==
    /\ cpc = "idle"
    /\ req.op = "passthrough"
    /\ result = Res("Ok")
    /\ tx = req.msg
    /\ respQ # <<>>

\* the write of a command method fails in this step
WriteFails ==
    /\ cpc = "write"
    /\ req.op \in CommandOps
    /\ cpc' # cpc
    /\ tx' = <<>>

WriteFailureStep ==
    WriteFails =>
        /\ result' = Res("UartError")
        /\ cpc' = "idle"
        /\ respQ' = respQ /\ respOut' = respOut
        /\ got' = None

\* C11: when the write of a command method fails, that step returns the
\* transport error to the caller and leaves the response queue and what was
\* dequeued from it unchanged; a command call that has written nothing is
\* never waiting on the response queue and has received no entry from it.
C11_WriteFailure ==
    /\ []((req.op \in CommandOps /\ tx = <<>>) =>
             (cpc # "resp_wait" /\ got = None))
    /\ [][WriteFailureStep]_vars

C11_Witness ==
    /\ cpc = "idle"
    /\ req.op = "request_version"
    /\ result = Res("UartError")
    /\ tx = <<>>
    /\ respQ # <<>>

\* the result the checks of get_response give for entry e, in their order
Ordered(e, expected) ==
    IF (e.hdr.msg_type \div 128) % 2 = 0 THEN Res("NoResponse")
    ELSE IF Len(e.body) < 4 THEN Res("NoResponse")
    ELSE IF e.hdr.msg_id # expected THEN Res("ResponseMismatch")
    ELSE IF le_u32(SubSeq(e.body, 1, 4)) # RESP_OK
         THEN [kind |-> "CommandError",
               id |-> le_u32(SubSeq(e.body, 1, 4)),
               description |-> SubSeq(e.body, 5, Len(e.body))]
    ELSE Res("Ok")

GetResponseStep ==
    (cpc = "resp_wait" /\ cpc' # cpc) =>
        /\ cpc' = "idle"
        /\ IF respQ = <<>>
           THEN /\ result' = Res("NoResponse")
                /\ respQ' = respQ /\ respOut' = respOut
           ELSE /\ respQ' = Tail(respQ)
                /\ respOut' = Append(respOut, Head(respQ).n)
                /\ result' = Ordered(Head(respQ), ExpectedId(req))

\* C12: a step of get_response ends the call; it dequeues nothing when the
\* queue stayed empty (NoResponse) and otherwise exactly the oldest entry,
\* whose result is given by the checks in their order: flag, parse, id,
\* code.  So CommandError is returned only on an entry with the expected
\* id, and an entry with another id and a code other than Ok gives
\* ResponseMismatch.
C12_ResponseChecks ==
    /\ [](Returned(req.op) =>
            /\ result.kind = "CommandError" =>
                  (got # None /\ got.hdr.msg_id = ExpectedId(req))
            /\ (got # None /\ Len(got.body) >= 4
                  /\ got.hdr.msg_id # ExpectedId(req))
               => result = Res("ResponseMismatch"))
    /\ [][GetResponseStep]_vars

C12_Witness ==
    /\ Returned("request_unlog")
    /\ got # None
    /\ got.hdr.msg_id = ID_Log
    /\ le_u32(SubSeq(got.body, 1, 4)) # RESP_OK
    /\ result = Res("ResponseMismatch")

\* C13: every call of get_log eventually ends, also while logs that get
\* skipped keep arriving.
C13_GetLogTerminates ==
    (cpc = "log_wait") ~> (cpc # "log_wait")

\* C20: a command write that waits for the transport lock eventually gets
\* it (or fails on it): the reader does not keep it from the writer forever.
C20_WriterProgress ==
    (cpc = "lock") ~> (cpc # "lock")

\* get_log skips entry e
Skipped(e) ==
    \/ (e.hdr.msg_type \div 128) % 2 = 1
    \/ Log_new(e.hdr.msg_id, e.body) = None

GetLogStep ==
    (cpc = "log_wait" /\ logOut' # logOut) =>
        /\ logQ # <<>>
        /\ logQ' = Tail(logQ)
        /\ logOut' = Append(logOut, Head(logQ).n)
        /\ IF Skipped(Head(logQ))
           THEN cpc' = "log_wait" /\ result' = Res("pending")
           ELSE /\ cpc' = "idle"
                /\ result' = [kind |-> "Ok",
                              log |-> Log_new(Head(logQ).hdr.msg_id,
                                              Head(logQ).body)]

\* C14: each turn of get_log takes the oldest entry of the log queue and
\* leaves the others queued in their order; an entry with the response
\* flag or one that is no known log is discarded and the call goes on
\* without an error, the first other one is returned.  So a call that
\* returned a log returned the earliest such entry, the last one dequeued,
\* and everything still queued was validated after it.
C14_EarliestLog ==
    /\ [](req.op = "get_log" =>
            /\ result.kind \in {"pending", "Ok", "panic"}
            /\ result.kind = "Ok" =>
                  /\ got # None /\ ~Skipped(got)
                  /\ result.log = Log_new(got.hdr.msg_id, got.body)
                  /\ got.n = logOut[Len(logOut)]
                  /\ \A i \in 1..Len(logQ) : logQ[i].n > got.n)
    /\ [][GetLogStep]_vars

C14_Witness ==
    /\ cpc = "idle"
    /\ req.op = "get_log"
    /\ calls = 1
    /\ result.kind = "Ok"
    /\ logOut = <<1, 2>>

\* the reader has a frame with a matching CRC in hand and its destination
\* queue cannot take it
Undeliverable ==
    /\ rpc = "body"
    /\ Len(wire) >= rhdr.msg_len + CRC_LEN
    /\ LET m == message \o SubSeq(wire, 1, rhdr.msg_len + CRC_LEN)
       IN  calc_crc(SubSeq(m, 1, Len(m) - CRC_LEN))
               = le_u32(SubSeq(m, Len(m) - CRC_LEN + 1, Len(m)))
    /\ \/ cpc = "dropped"
       \/ Len(IF (rhdr.msg_type \div 128) % 2 = 1 THEN respQ ELSE logQ)
              >= QUEUE_CAP

\* the reader reads that frame's body and CRC in this step
DeliveryFails ==
    /\ Undeliverable
    /\ wire' = SubSeq(wire, rhdr.msg_len + CRC_LEN + 1, Len(wire))

DeliveryFailsStep ==
    DeliveryFails =>
        /\ rpc' = "dead"
        /\ event' = "panic_full"
        /\ respQ' = respQ /\ logQ' = logQ

\* C15: neither queue ever holds more entries than its capacity; a step of
\* the reader that has validated a frame whose queue is full, or whose
\* receiver is gone, queues nothing and terminates the reader; and with
\* such a frame in hand the dispatch can always be taken: the reader does
\* not wait for room.
C15_BoundedDelivery ==
    /\ [](/\ Len(respQ) <= QUEUE_CAP
          /\ Len(logQ) <= QUEUE_CAP
          /\ Undeliverable =>
                ENABLED Dispatch(rhdr, [hdr |-> rhdr,
                                        n |-> Len(validated) + 1]))
    /\ [][DeliveryFailsStep]_vars

C15_Witness ==
    /\ rpc = "dead"
    /\ event = "panic_full"
    /\ Len(respQ) = QUEUE_CAP
    /\ cpc # "dropped"

\* C16: whenever the reader is outside an iteration (also after a fatal
\* failure) and no writer is writing, the lock is free and the other party
\* can acquire it: lock() succeeds, the mutex is not poisoned.
C16_LockReleased ==
    (rpc \in {"lock", "dead"} /\ cpc # "write") =>
        (lock = "free" /\ ~poisoned)

\* the command each method sends
SentCommand(op) ==
    IF op \in {"request_version", "request_position", "request_errors"}
    THEN ID_Log
    ELSE IF op = "request_unlog" THEN ID_Unlog ELSE ID_UnlogAll

\* fields of the frame a command method wrote: the message id of the header,
\* and of a Log request the id of the log asked for and the trigger
TxCommand == tx[5] + 256 * tx[6]
TxLogId == tx[HDR_LEN + 5] + 256 * tx[HDR_LEN + 6]
TxTrigger == tx[HDR_LEN + 7]

\* the received entry acknowledges command id
Acknowledges(e, id) ==
    /\ e # None
    /\ (e.hdr.msg_type \div 128) % 2 = 1
    /\ e.hdr.msg_id = id
    /\ Len(e.body) >= 4
    /\ le_u32(SubSeq(e.body, 1, 4)) = RESP_OK

\* C17: a command method that returned from get_response succeeded exactly
\* when the entry it received is a response with code Ok whose id is that
\* of the command it sent (Log for request_version, request_position and
\* request_errors, Unlog for request_unlog, UnlogAll for request_unlog_all);
\* the frame it wrote carries that command id, and request_position asks
\* for BestXYZ with trigger Once when interval is 0 and OnTime otherwise.
C17_AwaitedIds ==
    /\ (req.op \in CommandOps /\ tx # <<>>) =>
          /\ TxCommand = SentCommand(req.op)
          /\ req.op = "request_position" =>
                /\ TxLogId = ID_BestXYZ
                /\ TxTrigger = IF req.interval = 0 THEN TRIGGER_Once
                                ELSE TRIGGER_OnTime
    /\ (req.op \in CommandOps /\ Returned(req.op)) =>
          (result = Res("Ok") <=> Acknowledges(got, SentCommand(req.op)))

C17_Witness ==
    /\ Returned("request_position")
    /\ req.interval # 0
    /\ result = Res("Ok")
    /\ TxTrigger = TRIGGER_OnTime

\* C18: a command method returns success only on a response the reader
\* queued while that very call was waiting for it, its command written.
C18_NoStaleAck ==
    (req.op \in CommandOps /\ Returned(req.op) /\ result = Res("Ok")) =>
        got.call = calls

\* C19: a caller that waits on a queue does not hold the lock, and the lock
\* is held by the caller only while it writes; so while the caller waits,
\* a reader at the top of its loop can take the lock, and a reader with a
\* frame in hand can dispatch it whatever the state of the queue and of the
\* caller: no state has each of the two waiting for the other.
C19_NoDeadlock ==
    /\ cpc \in {"resp_wait", "log_wait"} => lock # "caller"
    /\ lock = "caller" => cpc = "write"
    /\ (cpc = "resp_wait" /\ rpc = "lock") => ENABLED read_thread_lock
    /\ (rpc = "body" /\ cpc \in {"lock", "resp_wait"}) =>
          ENABLED Dispatch(rhdr, [hdr |-> rhdr, n |-> Len(validated) + 1])

C19_Witness ==
    /\ cpc = "resp_wait"
    /\ rpc = "body"
    /\ lock = "reader"
    /\ Len(respQ) = QUEUE_CAP

====
